---- MODULE Spec2Model ----
(***************************************************************************)
(* Model of the btrfs-perf scripts: roundrobin-tune.py (main,              *)
(* tune_mixed_inc, tune_nonrot_inc, tune_rot_inc, run_fio),                *)
(* policies-benchmark.py (main), fio.py (check_prerequisities, the job_*   *)
(* functions, bandwidth_to_mibs, get_bandwidth, run_fio_pipe, run_fio) and *)
(* btrfs.py (get_policies, set_policy, drop_caches).                       *)
(*                                                                         *)
(* A run is the main() of either script or a direct call of tune_mixed_inc *)
(* with explicit ranges.  The external collaborators (fio, sysfs, the page *)
(* cache) are state variables; what fio prints is a nondeterministic       *)
(* input drawn at each measurement.                                        *)
(***************************************************************************)
EXTENDS Integers, Sequences, FiniteSets, TLC

(* ------------------------------ bounds --------------------------------- *)
\* largest candidate space (n_nonrot * n_rot) a modelled run enumerates
MaxTrials == 4
\* fio reports bandwidths BwStep * k KB/s, k in 1..MaxBw
MaxBw == 3
BwStep == 256
\* largest number of entries of the "jobs" list of fio's output
MaxWorkers == 2
\* largest range (N_ITER) of the runs that vary the workload options
MaxJobIter == 3

(* --------------------------- value encodings --------------------------- *)
\* float("-inf"), the initial value of max_bw_1..3; below every sample
NegInf == -1
\* Python's None as the aggregate bandwidth of a one-job output
None == -2
\* no exception pending
NoExc == ""

Samples == {BwStep * k : k \in 1..MaxBw}

\* what both tunables hold when a run starts: a value left by earlier
\* use of the filesystem, one that no trial of a modelled run writes
StaleInc == MaxTrials

\* the read policies the filesystem offers, in the order sysfs lists them
AvailPolicies == <<"pid", "roundrobin", "latency">>

VARIABLES
    pc,             \* control position of the run
    entry,          \* the function the run starts in: "main" (of
                    \* roundrobin-tune.py), "tune_mixed_inc",
                    \* "get_bandwidth" or "policies-benchmark" (its main)
    args,           \* main's parsed flags
    env,            \* what the run starts in: euid, fio on PATH, active policy
    N_ITER,         \* the module's default range
    to_mibs,        \* the to_mibs argument the run's get_bandwidth calls get
    exc,            \* the exception propagating, NoExc when none
    exc_args,       \* what that exception carries (its args), <<>> when none
    policy,         \* the active read policy (the bracketed entry of sysfs)
    old_policy,     \* set_policy's local
    policy_writes,  \* every value written to the policy file, in order
    n_nonrot, n_rot,        \* tune_mixed_inc's ranges
    multithread, benchmark_type, loops, size, job,
                            \* and its workload parameters
    i_nonrot, i_rot,        \* its loop variables
    nonrot_inc, rot_inc,    \* live values of the two sysfs tunables
    cache,          \* page cache: "cold" after drop_caches, "warm" after I/O
    out,            \* <<o>>: the completed fio process (exit status and
                    \* stdout) whose result is in hand, <<>> when none is:
                    \* before the first measurement and, in the tuner,
                    \* once the result has gone through the ranking
    bw, bw_sum,     \* tune_mixed_inc's locals
    max_bw_1, max_bw_2, max_bw_3,
    best_n_nonrot_1, best_n_nonrot_2, best_n_nonrot_3,
    best_n_rot_1, best_n_rot_2, best_n_rot_3,
    trials,         \* every fio invocation of the tuner: the tunables
                    \* live at that moment and the first job's bandwidth
                    \* it reported
    fio_jobs,       \* every fio invocation: the job fio was given and the
                    \* read policy active at that moment
    policies,       \* policies-benchmark: the names get_policies has yet
                    \* to yield
    bench_policy,   \* policies-benchmark: main's loop variable "policy"
    table           \* policies-benchmark: main's table, one row a policy

inputVars == <<entry, args, env, N_ITER, to_mibs>>
policyVars == <<policy, old_policy, policy_writes>>
excVars == <<exc, exc_args>>
rangeVars == <<n_nonrot, n_rot>>
jobVars == <<multithread, benchmark_type, loops, size, job>>
benchVars == <<policies, bench_policy, table>>
loopVars == <<i_nonrot, i_rot>>
storeVars == <<nonrot_inc, rot_inc>>
localVars == <<bw, bw_sum>>
slotVars == <<max_bw_1, max_bw_2, max_bw_3,
              best_n_nonrot_1, best_n_nonrot_2, best_n_nonrot_3,
              best_n_rot_1, best_n_rot_2, best_n_rot_3>>
vars == <<pc, inputVars, benchVars, excVars, policyVars, rangeVars, jobVars,
          loopVars, storeVars, cache, out, localVars, slotVars, trials,
          fio_jobs>>

(* ------------------------- fio.py: pure helpers ------------------------ *)
\* round(bw / 1024): Python 3 rounds a half to the even neighbour
bandwidth_to_mibs(b) ==
    LET q == b \div 1024
        r == b % 1024
    IN  IF 2 * r < 1024 THEN q
        ELSE IF 2 * r > 1024 THEN q + 1
        ELSE IF q % 2 = 0 THEN q ELSE q + 1

\* round() of an infinite float raises OverflowError
bandwidth_to_mibs_raises(b) == b = NegInf

\* what fio may print: exit status rc, whether stdout is JSON holding a
\* well-formed "jobs" list, and the read bandwidth of each job of the list
JobLists == UNION {[1..w -> Samples] : w \in 0..MaxWorkers}
FioOutputs ==
    {[rc |-> r, json |-> FALSE, jobs |-> <<>>] : r \in {0, 1}}
    \cup {[rc |-> r, json |-> TRUE, jobs |-> js] : r \in {0, 1}, js \in JobLists}

RECURSIVE SumBw(_)
SumBw(jobs) == IF jobs = <<>> THEN 0 ELSE Head(jobs) + SumBw(Tail(jobs))

\* json.loads / j["jobs"] / assert(len(jobs) > 0)
get_bandwidth_raises(o) ==
    IF ~o.json THEN "JSONDecodeError"
    ELSE IF ~(Len(o.jobs) > 0) THEN "AssertionError"
    ELSE NoExc

\* mutant: the single-job figure taken from the sum when there is one
get_bandwidth_aggregate(o, mibs) ==
    LET jobs == o.jobs
        sum == SumBw(jobs)
        bw_single_job == IF Len(jobs) = 1 THEN jobs[1] ELSE sum
    IN  IF Len(jobs) = 1
        THEN [bw |-> IF mibs THEN bandwidth_to_mibs(bw_single_job)
                     ELSE bw_single_job,
              bw_sum |-> None]
        ELSE [bw |-> IF mibs THEN bandwidth_to_mibs(bw_single_job)
                     ELSE bw_single_job,
              bw_sum |-> IF mibs THEN bandwidth_to_mibs(sum) ELSE sum]

\* mutant: the sum starts after the first job
get_bandwidth_others(o, mibs) ==
    LET jobs == o.jobs
        bw_single_job == IF mibs THEN bandwidth_to_mibs(jobs[1]) ELSE jobs[1]
        sum == SumBw(Tail(jobs))
    IN  IF Len(jobs) = 1
        THEN [bw |-> bw_single_job, bw_sum |-> None]
        ELSE [bw |-> bw_single_job,
              bw_sum |-> IF mibs THEN bandwidth_to_mibs(sum) ELSE sum]

get_bandwidth(o, mibs) ==
    LET jobs == o.jobs
        bw_single_job == IF mibs THEN bandwidth_to_mibs(jobs[1]) ELSE jobs[1]
        sum == SumBw(jobs)
    IN  IF Len(jobs) = 1
        THEN [bw |-> bw_single_job, bw_sum |-> None]
        ELSE [bw |-> bw_single_job,
              bw_sum |-> IF mibs THEN bandwidth_to_mibs(sum) ELSE sum]

(* --------------------- fio.py: the synthesized jobs -------------------- *)
DEFAULT_LOOPS == 3
\* "10G": a size is modelled by its number of GiB
DEFAULT_SIZE == 10
\* os.cpu_count(): as many CPUs as an output lists jobs at most
cpu_count == MaxWorkers
\* the path of a job file a caller may name with --fio-job
JobFile == 1

\* remove_null_kwargs, then the default of the signature for a keyword
\* that was stripped
remove_null_kwargs(v, default) == IF v = None THEN default ELSE v

\* DEFAULT_FIO_JOB % (rw, loops, numjobs, size)
DEFAULT_FIO_JOB(rw, l, numjobs, s) ==
    [kind |-> "pipe", rw |-> rw, loops |-> l, numjobs |-> numjobs, size |-> s]

job_seqread_singlethread(l, s) ==
    DEFAULT_FIO_JOB("read", remove_null_kwargs(l, DEFAULT_LOOPS), 1,
                    remove_null_kwargs(s, DEFAULT_SIZE))

job_seqread_multithread(l, s) ==
    DEFAULT_FIO_JOB("read", remove_null_kwargs(l, DEFAULT_LOOPS), cpu_count,
                    remove_null_kwargs(s, DEFAULT_SIZE))

job_randread_singlethread(l, s) ==
    DEFAULT_FIO_JOB("randread", remove_null_kwargs(l, DEFAULT_LOOPS), 1,
                    remove_null_kwargs(s, DEFAULT_SIZE))

job_randread_multithread(l, s) ==
    DEFAULT_FIO_JOB("randread", remove_null_kwargs(l, DEFAULT_LOOPS),
                    cpu_count, remove_null_kwargs(s, DEFAULT_SIZE))

(* ---------------------- roundrobin-tune.py: run_fio -------------------- *)
BenchmarkType == {"seqread", "randread"}

FIO_JOBS_SINGLETHREAD(t, l, s) ==
    IF t = "seqread" THEN job_seqread_singlethread(l, s)
    ELSE job_randread_singlethread(l, s)

FIO_JOBS_MULTITHREAD(t, l, s) ==
    IF t = "seqread" THEN job_seqread_multithread(l, s)
    ELSE job_randread_multithread(l, s)

\* mutant: the job file is ignored, a job is always synthesized
RunFioJob_synth(mt, t, l, s, j) ==
    IF mt THEN FIO_JOBS_MULTITHREAD(t, l, s)
    ELSE FIO_JOBS_SINGLETHREAD(t, l, s)

\* what run_fio hands to fio: the job file when there is one (fio.run_fio),
\* else the job synthesized from the other four arguments (run_fio_pipe)
RunFioJob(mt, t, l, s, j) ==
    IF j # None THEN [kind |-> "file", path |-> j]
    ELSE IF mt THEN FIO_JOBS_MULTITHREAD(t, l, s)
    ELSE FIO_JOBS_SINGLETHREAD(t, l, s)

(* ------------------------ btrfs.py: set_policy ------------------------- *)
\* the words of the sysfs policy file: the active policy is in brackets
PolicyFile(active) ==
    [k \in 1..Len(AvailPolicies) |->
        [name |-> AvailPolicies[k], bracket |-> AvailPolicies[k] = active]]

\* old_policy = "pid"; for p in policies.split(): if p.startswith("["): ...
RECURSIVE ScanOldPolicy(_, _)
ScanOldPolicy(words, old) ==
    IF words = <<>> THEN old
    ELSE ScanOldPolicy(Tail(words),
                       IF Head(words).bracket THEN Head(words).name ELSE old)

\* mutant: the file is not scanned, old_policy keeps its default
ReadOldPolicy_default(active) == "pid"

ReadOldPolicy(active) == ScanOldPolicy(PolicyFile(active), "pid")

\* get_policies: the words of the file in order, brackets stripped
PolicyNames(active) ==
    [k \in 1..Len(PolicyFile(active)) |-> PolicyFile(active)[k].name]

(* ------------------- roundrobin-tune.py: tune_mixed_inc ---------------- *)
Slots ==
    [max_bw_1 |-> max_bw_1, max_bw_2 |-> max_bw_2, max_bw_3 |-> max_bw_3,
     best_n_nonrot_1 |-> best_n_nonrot_1, best_n_nonrot_2 |-> best_n_nonrot_2,
     best_n_nonrot_3 |-> best_n_nonrot_3,
     best_n_rot_1 |-> best_n_rot_1, best_n_rot_2 |-> best_n_rot_2,
     best_n_rot_3 |-> best_n_rot_3]

InitSlots ==
    [max_bw_1 |-> NegInf, max_bw_2 |-> NegInf, max_bw_3 |-> NegInf,
     best_n_nonrot_1 |-> 0, best_n_nonrot_2 |-> 0, best_n_nonrot_3 |-> 0,
     best_n_rot_1 |-> 0, best_n_rot_2 |-> 0, best_n_rot_3 |-> 0]

\* mutant: slot 1 compared with >= instead of >
UpdateSlots_ge(s, i, j, b) ==
    IF b >= s.max_bw_1 THEN
        [max_bw_3 |-> s.max_bw_2,
         max_bw_2 |-> s.max_bw_1,
         max_bw_1 |-> b,
         best_n_nonrot_3 |-> s.best_n_nonrot_2,
         best_n_nonrot_2 |-> s.best_n_nonrot_2,
         best_n_nonrot_1 |-> i,
         best_n_rot_3 |-> s.best_n_rot_2,
         best_n_rot_2 |-> s.best_n_rot_1,
         best_n_rot_1 |-> j]
    ELSE IF b > s.max_bw_2 THEN
        [s EXCEPT !.max_bw_3 = s.max_bw_2,
                  !.max_bw_2 = b,
                  !.best_n_nonrot_3 = s.best_n_nonrot_2,
                  !.best_n_nonrot_2 = i,
                  !.best_n_rot_3 = s.best_n_rot_3,
                  !.best_n_rot_2 = j]
    ELSE IF b > s.max_bw_3 THEN
        [s EXCEPT !.max_bw_3 = b,
                  !.best_n_nonrot_3 = i,
                  !.best_n_rot_3 = j]
    ELSE s

\* mutant: the elif branch overwrites slot 2 without moving it to slot 3
UpdateSlots_noshift(s, i, j, b) ==
    IF b > s.max_bw_1 THEN
        [max_bw_3 |-> s.max_bw_2,
         max_bw_2 |-> s.max_bw_1,
         max_bw_1 |-> b,
         best_n_nonrot_3 |-> s.best_n_nonrot_2,
         best_n_nonrot_2 |-> s.best_n_nonrot_2,
         best_n_nonrot_1 |-> i,
         best_n_rot_3 |-> s.best_n_rot_2,
         best_n_rot_2 |-> s.best_n_rot_1,
         best_n_rot_1 |-> j]
    ELSE IF b > s.max_bw_2 THEN
        [s EXCEPT !.max_bw_2 = b,
                  !.best_n_nonrot_2 = i,
                  !.best_n_rot_2 = j]
    ELSE IF b > s.max_bw_3 THEN
        [s EXCEPT !.max_bw_3 = b,
                  !.best_n_nonrot_3 = i,
                  !.best_n_rot_3 = j]
    ELSE s

\* the if / elif / elif of the loop body, assignment by assignment
UpdateSlots(s, i, j, b) ==
    IF b > s.max_bw_1 THEN
        [max_bw_3 |-> s.max_bw_2,
         max_bw_2 |-> s.max_bw_1,
         max_bw_1 |-> b,
         best_n_nonrot_3 |-> s.best_n_nonrot_2,
         best_n_nonrot_2 |-> s.best_n_nonrot_2,
         best_n_nonrot_1 |-> i,
         best_n_rot_3 |-> s.best_n_rot_2,
         best_n_rot_2 |-> s.best_n_rot_1,
         best_n_rot_1 |-> j]
    ELSE IF b > s.max_bw_2 THEN
        [s EXCEPT !.max_bw_3 = s.max_bw_2,
                  !.max_bw_2 = b,
                  !.best_n_nonrot_3 = s.best_n_nonrot_2,
                  !.best_n_nonrot_2 = i,
                  !.best_n_rot_3 = s.best_n_rot_3,
                  !.best_n_rot_2 = j]
    ELSE IF b > s.max_bw_3 THEN
        [s EXCEPT !.max_bw_3 = b,
                  !.best_n_nonrot_3 = i,
                  !.best_n_rot_3 = j]
    ELSE s

\* mutant: the inner loop stops one short, range(n_rot - 1)
NextCandidate_short(i, j, nn, nr) ==
    IF j + 1 < nr - 1 THEN [more |-> TRUE, i_nonrot |-> i, i_rot |-> j + 1]
    ELSE IF i + 1 < nn THEN [more |-> TRUE, i_nonrot |-> i + 1, i_rot |-> 0]
    ELSE [more |-> FALSE, i_nonrot |-> i, i_rot |-> j]

\* mutant: the two for statements swapped, rotational outermost
NextCandidate_colmajor(i, j, nn, nr) ==
    IF i + 1 < nn THEN [more |-> TRUE, i_nonrot |-> i + 1, i_rot |-> j]
    ELSE IF j + 1 < nr THEN [more |-> TRUE, i_nonrot |-> 0, i_rot |-> j + 1]
    ELSE [more |-> FALSE, i_nonrot |-> i, i_rot |-> j]

\* for i_nonrot in range(n_nonrot): for i_rot in range(n_rot): the loop
\* variables of the iteration after (i, j), or more = FALSE after the last
NextCandidate(i, j, nn, nr) ==
    IF j + 1 < nr THEN [more |-> TRUE, i_nonrot |-> i, i_rot |-> j + 1]
    ELSE IF i + 1 < nn THEN [more |-> TRUE, i_nonrot |-> i + 1, i_rot |-> 0]
    ELSE [more |-> FALSE, i_nonrot |-> i, i_rot |-> j]

\* mutant: the commit takes slot 2's value
CommitNonrot_second(s) == s.best_n_nonrot_2

\* the values the last two statements of tune_mixed_inc write
CommitNonrot(s) == s.best_n_nonrot_1
CommitRot(s) == s.best_n_rot_1

\* mutant: set_policy without try / finally, the restore is skipped
Unwind_nofinally == "raised"

\* mutant: the trial is wrapped in try / except and tried again
Unwind_retry == "drop_caches"

\* where an exception raised inside the tuning or a benchmark goes: both
\* mains run it inside "with btrfs.set_policy(...)", whose finally clause
\* runs first
Unwind ==
    IF entry \in {"main", "policies-benchmark"} THEN "finally" ELSE "raised"

SetSlots(s) ==
    /\ max_bw_1' = s.max_bw_1
    /\ max_bw_2' = s.max_bw_2
    /\ max_bw_3' = s.max_bw_3
    /\ best_n_nonrot_1' = s.best_n_nonrot_1
    /\ best_n_nonrot_2' = s.best_n_nonrot_2
    /\ best_n_nonrot_3' = s.best_n_nonrot_3
    /\ best_n_rot_1' = s.best_n_rot_1
    /\ best_n_rot_2' = s.best_n_rot_2
    /\ best_n_rot_3' = s.best_n_rot_3

(* ------------------------------- Init ---------------------------------- *)
\* the runs explored: main with any flags, prerequisites and active policy,
\* or tune_mixed_inc called with ranges of its caller's choice.  N_ITER is
\* 10 in the source; a run is explored for each value of it that keeps the
\* candidate space within MaxTrials.
Policies == {AvailPolicies[k] : k \in 1..Len(AvailPolicies)}

\* the command lines that leave the workload options at argparse's defaults
DefaultArgs ==
    [nonrotational : BOOLEAN, rotational : BOOLEAN,
     multithread : {FALSE}, benchmark_type : {"seqread"},
     loops : {None}, size : {DEFAULT_SIZE}, fio_job : {None}]

MainRuns ==
    {r \in [args : DefaultArgs,
            env : [root : BOOLEAN, fio : BOOLEAN, policy : Policies],
            N : 1..MaxTrials] :
        (r.args.nonrotational /\ r.args.rotational) => r.N * r.N <= MaxTrials}

CallRuns ==
    {r \in [n_nonrot : 1..MaxTrials, n_rot : 1..MaxTrials] :
        r.n_nonrot * r.n_rot <= MaxTrials}

InitCommon ==
    /\ exc = NoExc
    /\ exc_args = <<>>
    /\ fio_jobs = <<>>
    /\ policies = <<>> /\ bench_policy = "" /\ table = <<>>
    /\ policy = env.policy
    /\ old_policy = "pid"
    /\ policy_writes = <<>>
    /\ i_nonrot = 0 /\ i_rot = 0
    /\ cache = "warm"
    /\ bw = None /\ bw_sum = None
    /\ max_bw_1 = NegInf /\ max_bw_2 = NegInf /\ max_bw_3 = NegInf
    /\ best_n_nonrot_1 = 0 /\ best_n_nonrot_2 = 0 /\ best_n_nonrot_3 = 0
    /\ best_n_rot_1 = 0 /\ best_n_rot_2 = 0 /\ best_n_rot_3 = 0
    /\ trials = <<>>

\* tune_mixed_inc's workload parameters before main has called it, and in
\* a direct call that passes none of the optional ones
InitJob ==
    /\ multithread = FALSE
    /\ benchmark_type = "seqread"
    /\ loops = DEFAULT_LOOPS
    /\ size = DEFAULT_SIZE
    /\ job = None

InitMain ==
    /\ entry = "main"
    /\ pc = "check_prerequisities"
    /\ \E r \in MainRuns :
        /\ args = r.args
        /\ env = r.env
        /\ N_ITER = r.N
    /\ to_mibs = FALSE
    /\ n_nonrot = 0 /\ n_rot = 0
    /\ InitJob
    /\ nonrot_inc = StaleInc /\ rot_inc = StaleInc
    /\ out = <<>>
    /\ InitCommon

InitCall ==
    /\ entry = "tune_mixed_inc"
    /\ pc = "tune_mixed_inc"
    /\ args \in {a \in DefaultArgs : a.nonrotational /\ a.rotational}
    /\ env = [root |-> TRUE, fio |-> TRUE, policy |-> "roundrobin"]
    /\ \E r \in CallRuns :
        /\ n_nonrot = r.n_nonrot
        /\ n_rot = r.n_rot
    /\ InitJob
    /\ N_ITER = MaxTrials  \* not read: both ranges are passed
    /\ to_mibs = FALSE
    /\ nonrot_inc = StaleInc /\ rot_inc = StaleInc
    /\ out = <<>>
    /\ InitCommon

Init == InitMain \/ InitCall

\* the command lines that set workload options: --multithread,
\* --benchmark-type and --fio-job in every combination, --loops and --size
\* both given or both left out, with at least one of --nonrotational and
\* --rotational
JobArgs ==
    {a \in [nonrotational : BOOLEAN, rotational : BOOLEAN,
            multithread : BOOLEAN, benchmark_type : BenchmarkType,
            loops : {None, DEFAULT_LOOPS + 2},
            size : {DEFAULT_SIZE, 1}, fio_job : {None, JobFile}] :
        /\ a.nonrotational \/ a.rotational
        /\ a.loops = None <=> a.size = DEFAULT_SIZE}

JobRuns ==
    {r \in [args : JobArgs, N : 1..MaxJobIter] :
        (r.args.nonrotational /\ r.args.rotational) =>
            r.N * r.N <= MaxJobIter}

\* main run as root with fio installed, with any workload options
InitJobRuns ==
    /\ entry = "main"
    /\ pc = "check_prerequisities"
    /\ \E r \in JobRuns :
        /\ args = r.args
        /\ N_ITER = r.N
    /\ env = [root |-> TRUE, fio |-> TRUE, policy |-> "pid"]
    /\ to_mibs = FALSE
    /\ n_nonrot = 0 /\ n_rot = 0
    /\ InitJob
    /\ nonrot_inc = StaleInc /\ rot_inc = StaleInc
    /\ out = <<>>
    /\ InitCommon

\* get_bandwidth on its own, applied to any fio output, with either value
\* of to_mibs (policies-benchmark.py passes True, the tuner the default)
InitGetBandwidth ==
    /\ entry = "get_bandwidth"
    /\ pc = "get_bandwidth"
    /\ args \in {a \in DefaultArgs : ~a.nonrotational /\ ~a.rotational}
    /\ env = [root |-> TRUE, fio |-> TRUE, policy |-> "pid"]
    /\ N_ITER = MaxTrials
    /\ to_mibs \in BOOLEAN
    /\ n_nonrot = 0 /\ n_rot = 0
    /\ InitJob
    /\ nonrot_inc = 0 /\ rot_inc = 0
    /\ \E o \in FioOutputs : out = <<o>>
    /\ InitCommon

(* ------------------------- roundrobin-tune.py: main -------------------- *)
\* mutant: only the euid is checked, a missing fio goes unnoticed
check_prerequisities_rootonly ==
    /\ pc = "check_prerequisities"
    /\ pc' = IF ~env.root THEN "exit" ELSE "get_fsid"
    /\ UNCHANGED <<inputVars, benchVars, excVars, policyVars, rangeVars,
                   jobVars, loopVars, storeVars, cache, out, localVars,
                   slotVars, trials, fio_jobs>>

\* fio.check_prerequisities(): sys.exit unless root and fio is on PATH
check_prerequisities ==
    /\ pc = "check_prerequisities"
    /\ pc' = IF ~env.root \/ ~env.fio THEN "exit" ELSE "get_fsid"
    /\ UNCHANGED <<inputVars, benchVars, excVars, policyVars, rangeVars,
                   jobVars, loopVars, storeVars, cache, out, localVars,
                   slotVars, trials, fio_jobs>>

\* os.chdir(args.mountpoint); fsid = btrfs.get_fsid(args.mountpoint)
get_fsid ==
    /\ pc = "get_fsid"
    /\ pc' = IF entry = "policies-benchmark" THEN "get_policies"
             ELSE "set_policy"
    /\ UNCHANGED <<inputVars, benchVars, excVars, policyVars, rangeVars,
                   jobVars, loopVars, storeVars, cache, out, localVars,
                   slotVars, trials, fio_jobs>>

\* the policy the with statement asks for: "roundrobin" in the tuner,
\* the loop variable in the benchmark
WithPolicy == IF entry = "policies-benchmark" THEN bench_policy
              ELSE "roundrobin"

\* with btrfs.set_policy(fsid, ...): everything up to the yield
set_policy ==
    /\ pc = "set_policy"
    /\ old_policy' = ReadOldPolicy(policy)
    /\ policy' = WithPolicy
    /\ policy_writes' = Append(policy_writes, WithPolicy)
    /\ pc' = IF entry = "policies-benchmark" THEN "seqread_singlethread"
             ELSE "with_body"
    /\ UNCHANGED <<inputVars, benchVars, excVars, rangeVars, jobVars,
                   loopVars, storeVars, cache, out, localVars, slotVars,
                   trials, fio_jobs>>

\* the if / elif / elif of the with block and the defaults of the call
main_dispatch ==
    /\ pc = "with_body"
    /\ IF args.nonrotational /\ args.rotational
       THEN /\ pc' = "tune_mixed_inc"
            /\ n_nonrot' = N_ITER
            /\ n_rot' = N_ITER
            /\ multithread' = args.multithread
            /\ benchmark_type' = args.benchmark_type
            /\ loops' = args.loops
            /\ size' = args.size
            /\ job' = args.fio_job
       ELSE IF args.nonrotational
       THEN pc' = "tune_nonrot_inc" /\ UNCHANGED <<rangeVars, jobVars>>
       ELSE IF args.rotational
       THEN pc' = "tune_rot_inc" /\ UNCHANGED <<rangeVars, jobVars>>
       ELSE pc' = "finally" /\ UNCHANGED <<rangeVars, jobVars>>
    /\ UNCHANGED <<inputVars, benchVars, excVars, policyVars, loopVars,
                   storeVars, cache, out, localVars, slotVars, trials,
                   fio_jobs>>

\* tune_mixed_inc(fsid, multithread, benchmark_type, n_rot=1, job=job):
\* called by main with (args.multithread, args.benchmark_type, args.loops,
\* args.size, job=args.fio_job); its loops and size are not passed on, so
\* tune_mixed_inc runs with the defaults of its signature
tune_nonrot_inc ==
    /\ pc = "tune_nonrot_inc"
    /\ n_nonrot' = N_ITER
    /\ n_rot' = 1
    /\ multithread' = args.multithread
    /\ benchmark_type' = args.benchmark_type
    /\ loops' = DEFAULT_LOOPS
    /\ size' = DEFAULT_SIZE
    /\ job' = args.fio_job
    /\ pc' = "tune_mixed_inc"
    /\ UNCHANGED <<inputVars, benchVars, excVars, policyVars, loopVars,
                   storeVars, cache, out, localVars, slotVars, trials,
                   fio_jobs>>

\* mutant: pasted from tune_nonrot_inc with the keyword left as n_rot
tune_rot_inc_pasted ==
    /\ pc = "tune_rot_inc"
    /\ n_nonrot' = N_ITER
    /\ n_rot' = 1
    /\ multithread' = args.multithread
    /\ benchmark_type' = args.benchmark_type
    /\ loops' = DEFAULT_LOOPS
    /\ size' = DEFAULT_SIZE
    /\ job' = args.fio_job
    /\ pc' = "tune_mixed_inc"
    /\ UNCHANGED <<inputVars, benchVars, excVars, policyVars, loopVars,
                   storeVars, cache, out, localVars, slotVars, trials,
                   fio_jobs>>

\* tune_mixed_inc(fsid, multithread, benchmark_type, n_nonrot=1, job=job)
tune_rot_inc ==
    /\ pc = "tune_rot_inc"
    /\ n_nonrot' = 1
    /\ n_rot' = N_ITER
    /\ multithread' = args.multithread
    /\ benchmark_type' = args.benchmark_type
    /\ loops' = DEFAULT_LOOPS
    /\ size' = DEFAULT_SIZE
    /\ job' = args.fio_job
    /\ pc' = "tune_mixed_inc"
    /\ UNCHANGED <<inputVars, benchVars, excVars, policyVars, loopVars,
                   storeVars, cache, out, localVars, slotVars, trials,
                   fio_jobs>>

\* the finally clause of set_policy, then the end of main or, in the
\* benchmark, the next turn of the for loop
set_policy_finally ==
    /\ pc = "finally"
    /\ policy' = old_policy
    /\ policy_writes' = Append(policy_writes, old_policy)
    /\ pc' = IF exc # NoExc THEN "raised"
             ELSE IF entry = "policies-benchmark" THEN "for_policy"
             ELSE "done"
    /\ UNCHANGED <<inputVars, benchVars, excVars, old_policy, rangeVars,
                   jobVars, loopVars, storeVars, cache, out, localVars,
                   slotVars, trials, fio_jobs>>

(* ---------------- roundrobin-tune.py: tune_mixed_inc, steps ------------ *)
\* the nine initialisations and the entry into the first iteration
tune_mixed_inc ==
    /\ pc = "tune_mixed_inc"
    /\ SetSlots(InitSlots)
    /\ i_nonrot' = 0
    /\ i_rot' = 0
    /\ pc' = "drop_caches"
    /\ UNCHANGED <<inputVars, benchVars, excVars, policyVars, rangeVars,
                   jobVars, storeVars, cache, out, localVars, trials,
                   fio_jobs>>

\* mutant: the caches are dropped between trials only, not before the first
drop_caches_notfirst ==
    /\ pc = "drop_caches"
    /\ cache' = IF trials = <<>> THEN cache ELSE "cold"
    /\ pc' = "set_nonrot_inc"
    /\ UNCHANGED <<inputVars, benchVars, excVars, policyVars, rangeVars,
                   jobVars, loopVars, storeVars, out, localVars, slotVars,
                   trials, fio_jobs>>

\* btrfs.drop_caches()
drop_caches ==
    /\ pc = "drop_caches"
    /\ cache' = "cold"
    /\ pc' = "set_nonrot_inc"
    /\ UNCHANGED <<inputVars, benchVars, excVars, policyVars, rangeVars,
                   jobVars, loopVars, storeVars, out, localVars, slotVars,
                   trials, fio_jobs>>

\* set_nonrot_inc(fsid, i_nonrot)
set_nonrot_inc ==
    /\ pc = "set_nonrot_inc"
    /\ nonrot_inc' = i_nonrot
    /\ pc' = "set_rot_inc"
    /\ UNCHANGED <<inputVars, benchVars, excVars, policyVars, rangeVars,
                   jobVars, loopVars, rot_inc, cache, out, localVars,
                   slotVars, trials, fio_jobs>>

\* set_rot_inc(fsid, i_rot)
set_rot_inc ==
    /\ pc = "set_rot_inc"
    /\ rot_inc' = i_rot
    /\ pc' = "run_fio"
    /\ UNCHANGED <<inputVars, benchVars, excVars, policyVars, rangeVars,
                   jobVars, loopVars, nonrot_inc, cache, out, localVars,
                   slotVars, trials, fio_jobs>>

\* what the OSError of a failed setter carries at most: errno and the path
\* of the sysfs file (a failed f.write carries errno alone), not the value
OSError(path) == [errno |-> "EACCES", filename |-> path]

\* open(path, "w") / f.write of either setter raises OSError (the file
\* cannot be opened, or the kernel rejects the value)
set_inc_raises ==
    /\ pc \in {"set_nonrot_inc", "set_rot_inc",
               "commit_nonrot_inc", "commit_rot_inc"}
    /\ exc' = "OSError"
    /\ exc_args' = OSError(IF pc \in {"set_nonrot_inc", "commit_nonrot_inc"}
                           THEN "roundrobin_nonrot_nonlocal_inc"
                           ELSE "roundrobin_rot_nonlocal_inc")
    /\ pc' = Unwind
    /\ UNCHANGED <<inputVars, benchVars, policyVars, rangeVars, jobVars,
                   loopVars, storeVars, cache, out, localVars, slotVars,
                   trials, fio_jobs>>

\* the first job's bandwidth as fio itself reported it, None when the
\* output has none
FirstSample(o) == IF o.json /\ Len(o.jobs) > 0 THEN o.jobs[1] ELSE None

\* bw, bw_sum = run_fio(...): fio.run_fio_pipe / fio.run_fio run fio with
\* subprocess.run (no check=True, and p.returncode is never read) and hand
\* p.stdout to get_bandwidth
run_fio ==
    /\ pc = "run_fio"
    /\ \E o \in FioOutputs :
        /\ get_bandwidth_raises(o) = NoExc
        /\ out' = <<o>>
        /\ bw' = get_bandwidth(o, to_mibs).bw
        /\ bw_sum' = get_bandwidth(o, to_mibs).bw_sum
        /\ trials' = Append(trials, [nonrot |-> nonrot_inc, rot |-> rot_inc,
                                     bw |-> FirstSample(o)])
    /\ fio_jobs' = Append(fio_jobs,
                          [policy |-> policy,
                           job |-> RunFioJob(multithread, benchmark_type,
                                             loops, size, job)])
    /\ cache' = "warm"
    /\ pc' = "rank"
    /\ UNCHANGED <<inputVars, benchVars, excVars, policyVars, rangeVars,
                   jobVars, loopVars, storeVars, slotVars>>

\* the same call when get_bandwidth raises on what fio printed
run_fio_raises ==
    /\ pc = "run_fio"
    /\ \E o \in FioOutputs :
        /\ get_bandwidth_raises(o) # NoExc
        /\ exc' = get_bandwidth_raises(o)
        /\ exc_args' = [msg |-> "get_bandwidth"]
        /\ out' = <<o>>
        /\ trials' = Append(trials, [nonrot |-> nonrot_inc, rot |-> rot_inc,
                                     bw |-> FirstSample(o)])
    /\ fio_jobs' = Append(fio_jobs,
                          [policy |-> policy,
                           job |-> RunFioJob(multithread, benchmark_type,
                                             loops, size, job)])
    /\ cache' = "warm"
    /\ pc' = Unwind
    /\ UNCHANGED <<inputVars, benchVars, policyVars, rangeVars, jobVars,
                   loopVars, storeVars, localVars, slotVars>>

\* get_bandwidth called on its own with the output held in out
get_bandwidth_returns ==
    /\ pc = "get_bandwidth"
    /\ get_bandwidth_raises(out[1]) = NoExc
    /\ bw' = get_bandwidth(out[1], to_mibs).bw
    /\ bw_sum' = get_bandwidth(out[1], to_mibs).bw_sum
    /\ pc' = "done"
    /\ UNCHANGED <<inputVars, benchVars, excVars, policyVars, rangeVars,
                   jobVars, loopVars, storeVars, cache, out, slotVars, trials,
                   fio_jobs>>

get_bandwidth_fails ==
    /\ pc = "get_bandwidth"
    /\ get_bandwidth_raises(out[1]) # NoExc
    /\ exc' = get_bandwidth_raises(out[1])
    /\ exc_args' = [msg |-> "get_bandwidth"]
    /\ pc' = "raised"
    /\ UNCHANGED <<inputVars, benchVars, policyVars, rangeVars, jobVars,
                   loopVars, storeVars, cache, out, localVars, slotVars,
                   trials, fio_jobs>>

\* mutant: the comparisons and the slots take bw_mibs instead of bw
rank_mibs ==
    /\ pc = "rank"
    /\ SetSlots(UpdateSlots(Slots, i_nonrot, i_rot, bandwidth_to_mibs(bw)))
    /\ LET nxt == NextCandidate(i_nonrot, i_rot, n_nonrot, n_rot)
       IN  /\ i_nonrot' = nxt.i_nonrot
           /\ i_rot' = nxt.i_rot
           /\ pc' = IF nxt.more THEN "drop_caches" ELSE "report"
    /\ out' = <<>>
    /\ UNCHANGED <<inputVars, benchVars, excVars, policyVars, rangeVars,
                   jobVars, storeVars, cache, localVars, trials, fio_jobs>>

\* bw_mibs = fio.bandwidth_to_mibs(bw), the if / elif / elif, and the step
\* of the two for loops
rank ==
    /\ pc = "rank"
    /\ SetSlots(UpdateSlots(Slots, i_nonrot, i_rot, bw))
    /\ LET nxt == NextCandidate(i_nonrot, i_rot, n_nonrot, n_rot)
       IN  /\ i_nonrot' = nxt.i_nonrot
           /\ i_rot' = nxt.i_rot
           /\ pc' = IF nxt.more THEN "drop_caches" ELSE "report"
    /\ out' = <<>>
    /\ UNCHANGED <<inputVars, benchVars, excVars, policyVars, rangeVars,
                   jobVars, storeVars, cache, localVars, trials, fio_jobs>>

\* max_bw_mibs_1..3 = fio.bandwidth_to_mibs(max_bw_1..3) and the prints
ReportRaises ==
    \/ bandwidth_to_mibs_raises(max_bw_1)
    \/ bandwidth_to_mibs_raises(max_bw_2)
    \/ bandwidth_to_mibs_raises(max_bw_3)

report ==
    /\ pc = "report"
    /\ ~ReportRaises
    /\ pc' = "commit_nonrot_inc"
    /\ UNCHANGED <<inputVars, benchVars, excVars, policyVars, rangeVars,
                   jobVars, loopVars, storeVars, cache, out, localVars,
                   slotVars, trials, fio_jobs>>

report_raises ==
    /\ pc = "report"
    /\ ReportRaises
    /\ exc' = "OverflowError"
    /\ exc_args' = [msg |-> "cannot convert float infinity to integer"]
    /\ pc' = Unwind
    /\ UNCHANGED <<inputVars, benchVars, policyVars, rangeVars, jobVars,
                   loopVars, storeVars, cache, out, localVars, slotVars,
                   trials, fio_jobs>>

\* set_nonrot_inc(fsid, best_n_nonrot_1)
commit_nonrot_inc ==
    /\ pc = "commit_nonrot_inc"
    /\ nonrot_inc' = CommitNonrot(Slots)
    /\ pc' = "commit_rot_inc"
    /\ UNCHANGED <<inputVars, benchVars, excVars, policyVars, rangeVars,
                   jobVars, loopVars, rot_inc, cache, out, localVars,
                   slotVars, trials, fio_jobs>>

\* set_rot_inc(fsid, best_n_rot_1), and the return to the caller
commit_rot_inc ==
    /\ pc = "commit_rot_inc"
    /\ rot_inc' = CommitRot(Slots)
    /\ pc' = IF entry = "main" THEN "finally" ELSE "done"
    /\ UNCHANGED <<inputVars, benchVars, excVars, policyVars, rangeVars,
                   jobVars, loopVars, nonrot_inc, cache, out, localVars,
                   slotVars, trials, fio_jobs>>

Next ==
    \/ check_prerequisities
    \/ get_fsid
    \/ set_policy
    \/ main_dispatch
    \/ tune_nonrot_inc
    \/ tune_rot_inc
    \/ set_policy_finally
    \/ tune_mixed_inc
    \/ drop_caches
    \/ set_nonrot_inc
    \/ set_rot_inc
    \/ set_inc_raises
    \/ run_fio
    \/ run_fio_raises
    \/ rank
    \/ report
    \/ report_raises
    \/ commit_nonrot_inc
    \/ commit_rot_inc

Spec == Init /\ [][Next]_vars

SpecJobRuns == InitJobRuns /\ [][Next]_vars

NextGetBandwidth == get_bandwidth_returns \/ get_bandwidth_fails

SpecGetBandwidth == InitGetBandwidth /\ [][NextGetBandwidth]_vars

(* -------------------------- policies-benchmark.py ---------------------- *)
InitBenchmark ==
    /\ entry = "policies-benchmark"
    /\ pc = "check_prerequisities"
    /\ args \in {a \in DefaultArgs : ~a.nonrotational /\ ~a.rotational}
    /\ env \in [root : BOOLEAN, fio : BOOLEAN, policy : Policies]
    /\ N_ITER = MaxTrials  \* not read
    /\ to_mibs = TRUE
    /\ n_nonrot = 0 /\ n_rot = 0
    /\ InitJob
    /\ nonrot_inc = StaleInc /\ rot_inc = StaleInc
    /\ out = <<>>
    /\ InitCommon

\* the four measurements of a policy's block, in the order of the source
BenchSteps == <<"seqread_singlethread", "seqread_multithread",
                "randread_singlethread", "randread_multithread">>

\* fio.job_xxx(): the job of each step, synthesized with no argument
BenchJob(step) ==
    IF step = "seqread_singlethread" THEN job_seqread_singlethread(None, None)
    ELSE IF step = "seqread_multithread"
    THEN job_seqread_multithread(None, None)
    ELSE IF step = "randread_singlethread"
    THEN job_randread_singlethread(None, None)
    ELSE job_randread_multithread(None, None)

\* the statement after a step: the next measurement, or table.append
AfterStep(step) ==
    IF step = "seqread_singlethread" THEN "seqread_multithread"
    ELSE IF step = "seqread_multithread" THEN "randread_singlethread"
    ELSE IF step = "randread_singlethread" THEN "randread_multithread"
    ELSE "table_append"

\* table = []; btrfs.get_policies(fsid) up to its first yield: the policy
\* file is read once, before the first block
get_policies ==
    /\ pc = "get_policies"
    /\ policies' = PolicyNames(policy)
    /\ table' = <<>>
    /\ pc' = "for_policy"
    /\ UNCHANGED <<inputVars, bench_policy, excVars, policyVars, rangeVars,
                   jobVars, loopVars, storeVars, cache, out, localVars,
                   slotVars, trials, fio_jobs>>

\* for policy in ...: the generator's next name, or the end of the loop
for_policy ==
    /\ pc = "for_policy"
    /\ IF policies = <<>>
       THEN pc' = "tabulate" /\ UNCHANGED <<policies, bench_policy>>
       ELSE /\ bench_policy' = Head(policies)
            /\ policies' = Tail(policies)
            /\ pc' = "set_policy"
    /\ UNCHANGED <<inputVars, table, excVars, policyVars, rangeVars, jobVars,
                   loopVars, storeVars, cache, out, localVars, slotVars,
                   trials, fio_jobs>>

\* bw, bw_sum = fio.run_fio_pipe(fio.job_xxx(), to_mibs=True)
run_fio_pipe ==
    /\ pc \in {BenchSteps[k] : k \in 1..Len(BenchSteps)}
    /\ \E o \in FioOutputs :
        /\ get_bandwidth_raises(o) = NoExc
        /\ out' = <<o>>
        /\ bw' = get_bandwidth(o, to_mibs).bw
        /\ bw_sum' = get_bandwidth(o, to_mibs).bw_sum
    /\ fio_jobs' = Append(fio_jobs, [policy |-> policy, job |-> BenchJob(pc)])
    /\ cache' = "warm"
    /\ pc' = AfterStep(pc)
    /\ UNCHANGED <<inputVars, benchVars, excVars, policyVars, rangeVars,
                   jobVars, loopVars, storeVars, slotVars, trials>>

\* the same call when get_bandwidth raises on what fio printed
run_fio_pipe_raises ==
    /\ pc \in {BenchSteps[k] : k \in 1..Len(BenchSteps)}
    /\ \E o \in FioOutputs :
        /\ get_bandwidth_raises(o) # NoExc
        /\ exc' = get_bandwidth_raises(o)
        /\ exc_args' = [msg |-> "get_bandwidth"]
        /\ out' = <<o>>
    /\ fio_jobs' = Append(fio_jobs, [policy |-> policy, job |-> BenchJob(pc)])
    /\ cache' = "warm"
    /\ pc' = Unwind
    /\ UNCHANGED <<inputVars, benchVars, policyVars, rangeVars, jobVars,
                   loopVars, storeVars, localVars, slotVars, trials>>

\* table.append([policy, ...]): the row's first column; its figures are
\* the bandwidths of the four steps and are not kept
table_append ==
    /\ pc = "table_append"
    /\ table' = Append(table, bench_policy)
    /\ pc' = "finally"
    /\ UNCHANGED <<inputVars, policies, bench_policy, excVars, policyVars,
                   rangeVars, jobVars, loopVars, storeVars, cache, out,
                   localVars, slotVars, trials, fio_jobs>>

\* print(tabulate.tabulate(table, headers, tablefmt="pretty"))
tabulate ==
    /\ pc = "tabulate"
    /\ pc' = "done"
    /\ UNCHANGED <<inputVars, benchVars, excVars, policyVars, rangeVars,
                   jobVars, loopVars, storeVars, cache, out, localVars,
                   slotVars, trials, fio_jobs>>

NextBenchmark ==
    \/ check_prerequisities
    \/ get_fsid
    \/ get_policies
    \/ for_policy
    \/ set_policy
    \/ run_fio_pipe
    \/ run_fio_pipe_raises
    \/ table_append
    \/ set_policy_finally
    \/ tabulate

SpecBenchmark == InitBenchmark /\ [][NextBenchmark]_vars

TypeOK ==
    /\ pc \in {"check_prerequisities", "get_fsid", "set_policy", "with_body",
               "tune_nonrot_inc", "tune_rot_inc", "tune_mixed_inc",
               "drop_caches", "set_nonrot_inc", "set_rot_inc", "run_fio",
               "rank", "report", "commit_nonrot_inc",
               "commit_rot_inc", "finally", "done", "raised", "exit"}
    /\ Len(trials) <= MaxTrials
    /\ out # <<>> <=> (pc = "rank" \/ exc \in {"JSONDecodeError",
                                               "AssertionError"})

(* ============================== claims ================================= *)
\* a measurement whose output get_bandwidth rejected
MeasurementFailed == exc \in {"JSONDecodeError", "AssertionError"}

\* every logged trial has gone through the ranking step
Settled == pc # "rank" /\ ~MeasurementFailed

\* the for loops have run to their end
LoopDone ==
    \/ pc \in {"report", "commit_nonrot_inc", "commit_rot_inc"}
    \/ exc = "OverflowError"
    \/ exc = NoExc /\ n_nonrot > 0 /\ pc \in {"finally", "done"}

\* both commit writes have been made
Committed == exc = NoExc /\ n_nonrot > 0 /\ pc \in {"finally", "done"}

\* trial p ranks before trial q: greater bandwidth, the earlier one on a tie
Beats(p, q) ==
    \/ trials[p].bw > trials[q].bw
    \/ trials[p].bw = trials[q].bw /\ p < q

\* the trial holding rank k (1 = best) among all logged trials
BestTrial(k) ==
    CHOOSE p \in 1..Len(trials) :
        Cardinality({q \in 1..Len(trials) : Beats(q, p)}) = k - 1

SlotAt(k) ==
    IF k = 1 THEN [nonrot |-> best_n_nonrot_1, rot |-> best_n_rot_1,
                   bw |-> max_bw_1]
    ELSE IF k = 2 THEN [nonrot |-> best_n_nonrot_2, rot |-> best_n_rot_2,
                        bw |-> max_bw_2]
    ELSE [nonrot |-> best_n_nonrot_3, rot |-> best_n_rot_3, bw |-> max_bw_3]

\* C1: after every trial, each occupied slot k in 1..3 holds the candidate
\* and the bandwidth of the k-th best trial so far (descending bandwidth,
\* earlier trial first on ties).  The code does not keep this: lines 176
\* and 190 assign best_n_nonrot_2 and best_n_rot_3 to themselves.
C1_SlotsAreTopThree ==
    Settled =>
        \A k \in 1..3 : k <= Len(trials) => SlotAt(k) = trials[BestTrial(k)]

\* C2: after every trial slot 1 is the first-enumerated trial attaining the
\* maximum bandwidth so far (replaced only by a strictly greater sample)
C2_SlotOneIsFirstMax ==
    (Settled /\ Len(trials) >= 1) =>
        /\ SlotAt(1) = trials[BestTrial(1)]
        /\ \A q \in 1..Len(trials) : trials[q].bw <= max_bw_1
        /\ \A q \in 1..Len(trials) :
              trials[q].bw = max_bw_1 =>
                  \/ best_n_nonrot_1 < trials[q].nonrot
                  \/ best_n_nonrot_1 = trials[q].nonrot
                        /\ best_n_rot_1 <= trials[q].rot

\* C2 witness: a later trial tied with the maximum and slot 1 kept the
\* earlier candidate
C2_Witness ==
    /\ Settled
    /\ \E p, q \in 1..Len(trials) :
          /\ p < q
          /\ trials[p].bw = max_bw_1
          /\ trials[q].bw = max_bw_1
          /\ \E r \in 1..Len(trials) : r < p /\ trials[r].bw < max_bw_1
          /\ best_n_nonrot_1 = trials[p].nonrot
          /\ best_n_rot_1 = trials[p].rot

\* the trials that measured candidate (i, j)
TrialsOf(i, j) ==
    {p \in 1..Len(trials) : trials[p].nonrot = i /\ trials[p].rot = j}

\* C3: no candidate is ever measured twice, and once the loops have run to
\* their end every candidate (i, j) of the space was measured exactly once,
\* n_nonrot * n_rot trials in all
C3_EachCandidateOnce ==
    /\ \A p, q \in 1..Len(trials) :
          (trials[p].nonrot = trials[q].nonrot /\ trials[p].rot = trials[q].rot)
              => p = q
    /\ LoopDone =>
          /\ Len(trials) = n_nonrot * n_rot
          /\ \A i \in 0..(n_nonrot - 1) : \A j \in 0..(n_rot - 1) :
                Cardinality(TrialsOf(i, j)) = 1

\* C3 witness: a run over a 2 x 2 space has returned
C3_Witness ==
    /\ pc = "done" /\ exc = NoExc
    /\ n_nonrot = 2 /\ n_rot = 2
    /\ Len(trials) = 4
    /\ Cardinality(TrialsOf(1, 1)) = 1

\* candidate a comes before candidate b in row-major order
RowMajorBefore(a, b) ==
    \/ a.nonrot < b.nonrot
    \/ a.nonrot = b.nonrot /\ a.rot < b.rot

\* C7: trial (i, j) precedes trial (i', j') exactly when i < i', or i = i'
\* and j < j'; the trials of a 2 x 2 space are (0,0),(0,1),(1,0),(1,1)
C7_RowMajorOrder ==
    /\ \A p, q \in 1..Len(trials) :
          p < q <=> RowMajorBefore(trials[p], trials[q])
    /\ (LoopDone /\ n_nonrot = 2 /\ n_rot = 2) =>
          [p \in 1..4 |-> <<trials[p].nonrot, trials[p].rot>>]
              = <<(<<0, 0>>), (<<0, 1>>), (<<1, 0>>), (<<1, 1>>)>>

\* C7 witness: a 2 x 2 run has measured its four candidates
C7_Witness ==
    /\ n_nonrot = 2 /\ n_rot = 2
    /\ Len(trials) = 4
    /\ trials[2].rot = 1 /\ trials[3].nonrot = 1

\* the states after the last iteration of the loops, and after an abort
PostLoop == {"report", "commit_nonrot_inc", "commit_rot_inc",
             "finally", "done", "raised"}

\* C4: once both commit writes are made the two tunables hold slot 1's
\* candidate, which is the winner's, and from the end of the loop on no step
\* measures or drops the caches
C4_CommitWritesSlotOne ==
    /\ [](Committed =>
            /\ nonrot_inc = best_n_nonrot_1
            /\ rot_inc = best_n_rot_1
            /\ nonrot_inc = trials[BestTrial(1)].nonrot
            /\ rot_inc = trials[BestTrial(1)].rot)
    /\ [][(pc \in PostLoop) =>
            (trials' = trials /\ cache' = cache /\ out' = out)]_vars

\* C4 witness: a run has committed a winner that is neither the last
\* candidate measured nor the candidate of slot 2 or 3
C4_Witness ==
    /\ Committed /\ pc = "done"
    /\ nonrot_inc = best_n_nonrot_1 /\ rot_inc = best_n_rot_1
    /\ best_n_nonrot_1 # best_n_nonrot_2
    /\ best_n_nonrot_1 # best_n_nonrot_3
    /\ best_n_nonrot_1 # trials[Len(trials)].nonrot
    /\ best_n_rot_1 # trials[Len(trials)].rot

\* C5: in every terminal state the active policy is the one the run started
\* in; main writes the policy file exactly twice, "roundrobin" on entering
\* the block and the former policy on leaving it, whether the block ends
\* normally or by an exception, and never restores before the block ends
C5_PolicyRestoredOnce ==
    /\ pc \in {"done", "raised", "exit"} => policy = env.policy
    /\ (entry = "main" /\ pc \in {"done", "raised"}) =>
          policy_writes = <<"roundrobin", env.policy>>
    /\ pc \notin {"done", "raised"} =>
          /\ Len(policy_writes) <= 1
          /\ policy_writes # <<>> =>
                (policy_writes = <<"roundrobin">> /\ policy = "roundrobin")

\* C5 witness: the third trial of a main run raised and the run ended with
\* the former policy active again
C5_Witness ==
    /\ entry = "main" /\ pc = "raised"
    /\ MeasurementFailed
    /\ Len(trials) = 3 /\ Len(trials) < n_nonrot * n_rot
    /\ env.policy = "latency" /\ policy = "latency"

\* C6: a measurement with unparsable output or no job raises; from then on
\* nothing is measured, written to a tunable, reported or committed: the
\* failed trial is the last one logged, its candidate was tried once, and
\* the tunables hold its values
C6_MeasurementFailureAborts ==
    /\ [][(trials' # trials /\ trials'[Len(trials')].bw = None) =>
            (MeasurementFailed' /\ pc' \in {"finally", "raised"})]_vars
    /\ [](MeasurementFailed =>
            /\ pc \in {"finally", "raised"}
            /\ trials # <<>>
            /\ trials[Len(trials)].bw = None
            /\ \A p \in 1..(Len(trials) - 1) : trials[p].bw # None
            /\ Cardinality(TrialsOf(trials[Len(trials)].nonrot,
                                    trials[Len(trials)].rot)) = 1
            /\ nonrot_inc = trials[Len(trials)].nonrot
            /\ rot_inc = trials[Len(trials)].rot
            /\ nonrot_inc = i_nonrot /\ rot_inc = i_rot)
    /\ [][MeasurementFailed =>
            (trials' = trials /\ nonrot_inc' = nonrot_inc
             /\ rot_inc' = rot_inc /\ cache' = cache)]_vars

\* C6 witness: the run ended on a failed second-row trial with a candidate
\* left untried, the tunables still at the failed candidate, which is not
\* the best candidate seen
C6_Witness ==
    /\ pc = "raised" /\ MeasurementFailed
    /\ Len(trials) = 3 /\ n_nonrot * n_rot = 4
    /\ nonrot_inc = 1 /\ rot_inc = 0
    /\ best_n_nonrot_1 = 0 /\ best_n_rot_1 = 1 /\ max_bw_1 # NegInf

SingleNonrot == entry = "main" /\ args.nonrotational /\ ~args.rotational
SingleRot == entry = "main" /\ ~args.nonrotational /\ args.rotational

\* the reference 1-D sweep: the index (from 0) of the first strict maximum
RECURSIVE Sweep1D(_, _, _, _)
Sweep1D(samples, k, best, best_bw) ==
    IF k > Len(samples) THEN best
    ELSE IF samples[k] > best_bw
         THEN Sweep1D(samples, k + 1, k - 1, samples[k])
         ELSE Sweep1D(samples, k + 1, best, best_bw)

SweepWinner == Sweep1D([p \in 1..Len(trials) |-> trials[p].bw], 1, 0, NegInf)

\* C8: in single-axis mode the p-th trial measures value p - 1 of the
\* varying tunable with the fixed tunable at 0, N_ITER trials run when the
\* loop runs to its end, every write to the fixed tunable writes 0, and the
\* commit leaves the fixed tunable at 0 and the varying one at the value a
\* reference 1-D sweep over the same samples picks
C8_SingleAxisIsSweep ==
    /\ [](SingleNonrot =>
            /\ \A p \in 1..Len(trials) :
                  trials[p].rot = 0 /\ trials[p].nonrot = p - 1
            /\ Len(trials) <= N_ITER
            /\ LoopDone => Len(trials) = N_ITER
            /\ Committed => (rot_inc = 0 /\ nonrot_inc = SweepWinner))
    /\ [](SingleRot =>
            /\ \A p \in 1..Len(trials) :
                  trials[p].nonrot = 0 /\ trials[p].rot = p - 1
            /\ Len(trials) <= N_ITER
            /\ LoopDone => Len(trials) = N_ITER
            /\ Committed => (nonrot_inc = 0 /\ rot_inc = SweepWinner))
    /\ [][(SingleNonrot /\ rot_inc' # rot_inc) => rot_inc' = 0]_vars
    /\ [][(SingleRot /\ nonrot_inc' # nonrot_inc) => nonrot_inc' = 0]_vars

\* C8 witness: a rotational-only run committed the first of two tied maxima,
\* which is neither the first nor the last value swept
C8_Witness ==
    /\ SingleRot /\ Committed /\ pc = "done"
    /\ Len(trials) >= 4
    /\ trials[1].bw < trials[2].bw
    /\ trials[3].bw = trials[2].bw
    /\ trials[2].bw = max_bw_1
    /\ trials[Len(trials)].bw < max_bw_1
    /\ rot_inc = 1 /\ nonrot_inc = 0

\* the slots the loop body yields from the first k logged trials, each
\* taken as (candidate, first job's bandwidth)
RECURSIVE RankedAfter(_)
RankedAfter(k) ==
    IF k = 0 THEN InitSlots
    ELSE UpdateSlots(RankedAfter(k - 1),
                     trials[k].nonrot, trials[k].rot, trials[k].bw)

\* C9: the slots, and the committed tunables, are a function of the
\* candidates and the first job's bandwidths alone: whatever the other
\* jobs report, runs that agree on the first job's samples agree on them
C9_OnlyFirstWorkerCounts ==
    /\ Settled => Slots = RankedAfter(Len(trials))
    /\ (pc = "rank") => Slots = RankedAfter(Len(trials) - 1)
    /\ Committed =>
          /\ nonrot_inc = RankedAfter(Len(trials)).best_n_nonrot_1
          /\ rot_inc = RankedAfter(Len(trials)).best_n_rot_1

\* C9 witness: a run committed although the aggregate of its last trial
\* exceeded every first-job sample while its first job did not
C9_Witness ==
    /\ Committed /\ pc = "done"
    /\ bw_sum # None
    /\ bw < max_bw_1
    /\ bw_sum > max_bw_1
    /\ <<nonrot_inc, rot_inc>>
          # <<trials[Len(trials)].nonrot, trials[Len(trials)].rot>>

\* the sum of the first k entries of a job list
RECURSIVE SumFirst(_, _)
SumFirst(jobs, k) == IF k = 0 THEN 0 ELSE SumFirst(jobs, k - 1) + jobs[k]

Returned == entry = "get_bandwidth" /\ pc = "done"

\* C10 as stated: the aggregate is None exactly for one job and otherwise
\* the sum of the jobs' raw bandwidths
C10_RawAggregate ==
    Returned =>
        LET jobs == out[1].jobs
        IN  /\ bw = IF to_mibs THEN bandwidth_to_mibs(jobs[1]) ELSE jobs[1]
            /\ bw_sum = None <=> Len(jobs) = 1
            /\ Len(jobs) > 1 => bw_sum = SumFirst(jobs, Len(jobs))

\* C10, amended: get_bandwidth returns for W >= 1 jobs the first job's
\* bandwidth and an aggregate that is None exactly when W = 1 and otherwise
\* the sum of all W raw bandwidths; with to_mibs set both are converted to
\* MiB/s, the aggregate being the conversion of the raw sum
C10_Aggregate ==
    Returned =>
        LET jobs == out[1].jobs
            total == SumFirst(jobs, Len(jobs))
        IN  /\ Len(jobs) >= 1 /\ out[1].json
            /\ bw = IF to_mibs THEN bandwidth_to_mibs(jobs[1]) ELSE jobs[1]
            /\ bw_sum = None <=> Len(jobs) = 1
            /\ Len(jobs) > 1 =>
                  bw_sum = IF to_mibs THEN bandwidth_to_mibs(total) ELSE total

\* C10 witness: a two-job output was parsed with the raw figures kept
C10_Witness ==
    /\ Returned
    /\ ~to_mibs
    /\ Len(out[1].jobs) = 2
    /\ out[1].jobs[1] # out[1].jobs[2]
    /\ bw = out[1].jobs[1]
    /\ bw_sum = out[1].jobs[1] + out[1].jobs[2]

\* C13: a main run that lacks a prerequisite (euid not 0, or fio not on
\* PATH) exits from check_prerequisities: it never switches the policy,
\* drops the caches, writes a tunable or measures
C13_PrerequisiteExitsFirst ==
    (entry = "main" /\ (~env.root \/ ~env.fio)) =>
        /\ pc \in {"check_prerequisities", "exit"}
        /\ exc = NoExc
        /\ policy_writes = <<>> /\ policy = env.policy
        /\ cache = "warm"
        /\ nonrot_inc = StaleInc /\ rot_inc = StaleInc
        /\ trials = <<>>

\* C13 witness: a run as root without fio has exited
C13_Witness ==
    /\ entry = "main" /\ pc = "exit"
    /\ env.root /\ ~env.fio
    /\ policy_writes = <<>> /\ trials = <<>>

\* C14: in every trial, the first included, the caches are dropped before
\* the two tunables are written and both are written before fio runs: at
\* each measurement the caches are cold (dropped since the measurement
\* before, which warmed them) and the live tunables are the candidate's
C14_TrialOrder ==
    /\ []((pc \in {"set_nonrot_inc", "set_rot_inc", "run_fio"}) =>
            cache = "cold")
    /\ []((pc = "set_rot_inc") => nonrot_inc = i_nonrot)
    /\ []((pc = "run_fio") => (nonrot_inc = i_nonrot /\ rot_inc = i_rot))
    /\ [][(trials' # trials) =>
            /\ cache = "cold" /\ cache' = "warm"
            /\ nonrot_inc = i_nonrot /\ rot_inc = i_rot
            /\ trials'[Len(trials')].nonrot = i_nonrot
            /\ trials'[Len(trials')].rot = i_rot]_vars
    /\ [][(cache' = "cold" /\ pc' # pc) =>
            (pc' \in {"set_nonrot_inc", "set_rot_inc", "run_fio"}
             \/ exc' = "OSError")]_vars

\* C14 witness: the second trial of a run has just measured its candidate
\* (0, 1), after the first trial had left the caches warm
C14_Witness ==
    /\ pc = "rank" /\ Len(trials) = 2
    /\ trials[2].nonrot = 0 /\ trials[2].rot = 1
    /\ nonrot_inc = 0 /\ rot_inc = 1
    /\ i_nonrot = 0 /\ i_rot = 1
    /\ cache = "warm"

\* C15: looking at the bandwidths alone, after every trial
\* max_bw_1 >= max_bw_2 >= max_bw_3, slot k holds the k-th largest of the
\* t samples measured so far for k <= min(3, t), and the other slots are
\* still at float("-inf")
C15_BandwidthsAreTopThree ==
    Settled =>
        /\ max_bw_1 >= max_bw_2
        /\ max_bw_2 >= max_bw_3
        /\ \A k \in 1..3 :
              SlotAt(k).bw = IF k <= Len(trials)
                             THEN trials[BestTrial(k)].bw
                             ELSE NegInf

\* C15 witness: four samples, the smallest first and the largest twice,
\* have been ranked: the first sample has left the slots
C15_Witness ==
    /\ Settled /\ Len(trials) = 4
    /\ trials[1].bw < trials[2].bw
    /\ trials[2].bw < trials[3].bw
    /\ trials[4].bw = trials[3].bw
    /\ max_bw_1 = trials[3].bw /\ max_bw_2 = trials[4].bw
    /\ max_bw_3 = trials[2].bw

\* C18: when every measurement of a non-empty candidate space succeeded,
\* the report step does not stop the run before the commit.  The code
\* does stop: with fewer than three trials a slot is still float("-inf")
\* and round(float("-inf") / 1024) raises OverflowError.
C18_ReportDoesNotStopRun ==
    (/\ n_nonrot >= 1 /\ n_rot >= 1
     /\ Len(trials) = n_nonrot * n_rot
     /\ \A p \in 1..Len(trials) : trials[p].bw # None)
        => exc # "OverflowError"

\* two trials whose raw bandwidths differ but display as the same MiB/s
SameMibs(p, q) ==
    /\ trials[p].bw # trials[q].bw
    /\ bandwidth_to_mibs(trials[p].bw) = bandwidth_to_mibs(trials[q].bw)

\* C19: the ranking compares and stores the raw bandwidth the measurement
\* returned, never the rounded MiB/s figure: every occupied slot holds the
\* raw sample of a trial, and of two trials that round to the same MiB/s
\* the one with the greater raw bandwidth ranks first
C19_RankingUsesRawBandwidth ==
    /\ (pc = "rank") => bw = trials[Len(trials)].bw
    /\ Settled =>
          \A k \in 1..3 :
              SlotAt(k).bw # NegInf =>
                  \E p \in 1..Len(trials) : trials[p].bw = SlotAt(k).bw
    /\ Settled =>
          \A p, q \in 1..Len(trials) :
              (SameMibs(p, q) /\ trials[p].bw > trials[q].bw) =>
                  /\ max_bw_1 >= trials[p].bw
                  /\ max_bw_1 = trials[p].bw => max_bw_2 >= trials[q].bw
                  /\ ~(/\ best_n_nonrot_1 = trials[q].nonrot
                       /\ best_n_rot_1 = trials[q].rot)

\* C19 witness: a later trial beat an earlier one by raw bandwidth although
\* both display as the same MiB/s, and took slot 1 from it
C19_Witness ==
    /\ Settled
    /\ \E p, q \in 1..Len(trials) :
          /\ p < q
          /\ SameMibs(p, q)
          /\ trials[q].bw > trials[p].bw
          /\ max_bw_1 = trials[q].bw /\ max_bw_2 = trials[p].bw
          /\ best_n_nonrot_1 = trials[q].nonrot
          /\ best_n_rot_1 = trials[q].rot

\* C11: a measurement whose fio process exited with a non-zero status,
\* whatever it printed, raises and ends the run; its output never reaches
\* the ranking.  The code does not look at the exit status: a process that
\* exited non-zero after printing a well-formed result is ranked like any
\* other.
C11_NonZeroExitAborts ==
    (entry # "get_bandwidth" /\ out # <<>> /\ out[1].rc # 0) =>
        (exc # NoExc /\ pc \in {"finally", "raised"})

\* a setter of the trial under way raised: the loops have not run to
\* their end
TrialWriteFailed == exc = "OSError" /\ Len(trials) < n_nonrot * n_rot

\* the part of C12 the code keeps: after a failed write of a trial the run
\* is unwinding or over, the candidate (i_nonrot, i_rot) was not measured,
\* no candidate after it was tried, and nothing is measured or written
\* from then on
WriteFailureAborts ==
    /\ [](TrialWriteFailed =>
            /\ pc \in {"finally", "raised"}
            /\ TrialsOf(i_nonrot, i_rot) = {}
            /\ \A p \in 1..Len(trials) :
                  RowMajorBefore(trials[p], [nonrot |-> i_nonrot,
                                             rot |-> i_rot]))
    /\ [][TrialWriteFailed =>
            (trials' = trials /\ nonrot_inc' = nonrot_inc
             /\ rot_inc' = rot_inc /\ cache' = cache)]_vars

\* the exception carries the candidate whose write failed
NamesCandidate ==
    /\ "candidate" \in DOMAIN exc_args
    /\ exc_args.candidate = <<i_nonrot, i_rot>>

\* C12: when a write of a candidate's value to a tunable fails during a
\* trial the run aborts (no measurement of that candidate, no later
\* candidate, no commit) and the error that surfaces identifies the
\* candidate.  The code lets the OSError of open / write through as it is:
\* it names the sysfs file at most, never the candidate.
C12_WriteFailureNamesCandidate ==
    TrialWriteFailed =>
        /\ pc \in {"finally", "raised"}
        /\ TrialsOf(i_nonrot, i_rot) = {}
        /\ NamesCandidate

\* main was given a job file with --fio-job
JobGiven == entry = "main" /\ args.fio_job # None

\* every fio invocation so far was given the caller's job file
EveryTrialRunsJobFile ==
    /\ Len(fio_jobs) = Len(trials)
    /\ \A k \in 1..Len(fio_jobs) :
          fio_jobs[k].job = [kind |-> "file", path |-> args.fio_job]

\* C16 as stated: with a job file every trial runs that job and none is
\* synthesized, and the result of such a trial has no aggregate bandwidth
\* even when the job runs several workers
C16_JobFileNoAggregate ==
    JobGiven =>
        /\ EveryTrialRunsJobFile
        /\ pc = "rank" => bw_sum = None

\* C16, amended: with a job file every trial runs that job and none is
\* synthesized, whatever multithread, benchmark type, loops and size are;
\* the result of such a trial is get_bandwidth's: the first job's raw
\* bandwidth and an aggregate that is None exactly when the job's output
\* lists one worker and else the sum of the workers' bandwidths
C16_JobFileReplacesSynthesis ==
    JobGiven =>
        /\ EveryTrialRunsJobFile
        /\ pc = "rank" =>
              LET jobs == out[1].jobs
              IN  /\ bw = jobs[1]
                  /\ bw_sum = None <=> Len(jobs) = 1
                  /\ Len(jobs) > 1 => bw_sum = SumFirst(jobs, Len(jobs))

\* C16 witness: the second trial of a run with a job file and every
\* workload option set measured a two-worker output and holds its sum
C16_Witness ==
    /\ JobGiven
    /\ args.multithread /\ args.benchmark_type = "randread"
    /\ args.loops # None /\ args.size # DEFAULT_SIZE
    /\ pc = "rank" /\ Len(fio_jobs) = 2
    /\ fio_jobs[2].job.kind = "file"
    /\ Len(out[1].jobs) = 2
    /\ bw_sum = out[1].jobs[1] + out[1].jobs[2]

\* the job the command line asks for when it names no job file
JobOfArgs ==
    DEFAULT_FIO_JOB(IF args.benchmark_type = "seqread" THEN "read"
                    ELSE "randread",
                    IF args.loops = None THEN DEFAULT_LOOPS ELSE args.loops,
                    IF args.multithread THEN cpu_count ELSE 1,
                    args.size)

\* C17: without a job file, in each of the three modes every trial runs
\* the same synthesized job, whose type, concurrency, loop count and size
\* are those passed to the tuning function (the default where none was
\* passed).  The code keeps this in the joint mode only: tune_nonrot_inc
\* and tune_rot_inc do not pass their loops and size on.
C17_WorkloadAsPassed ==
    (entry = "main" /\ args.fio_job = None) =>
        \A k \in 1..Len(fio_jobs) : fio_jobs[k].job = JobOfArgs

\* the joint mode does run the job asked for
JointWorkloadAsPassed ==
    (entry = "main" /\ args.fio_job = None
     /\ args.nonrotational /\ args.rotational) =>
        \A k \in 1..Len(fio_jobs) : fio_jobs[k].job = JobOfArgs

Benchmarking == entry = "policies-benchmark"

\* C20: the benchmark runs, for each policy of the file in the order
\* listed, the four measurements seqread 1 thread, seqread all threads,
\* randread 1 thread, randread all threads, all four with that policy
\* active; between the blocks and when the run is over, whether it ended
\* normally or a measurement raised, the active policy is the one that was
\* active when the program started
C20_BenchmarkPolicyBlocks ==
    Benchmarking =>
        /\ \A k \in 1..Len(fio_jobs) :
              /\ fio_jobs[k].policy = AvailPolicies[((k - 1) \div 4) + 1]
              /\ fio_jobs[k].job = BenchJob(BenchSteps[((k - 1) % 4) + 1])
        /\ (pc \in {BenchSteps[k] : k \in 1..Len(BenchSteps)}
                \cup {"table_append"}) =>
              (policy = bench_policy /\ exc = NoExc)
        /\ (pc \in {"check_prerequisities", "exit", "get_fsid",
                    "get_policies", "for_policy", "set_policy", "tabulate",
                    "done", "raised"}) => policy = env.policy
        /\ (pc = "for_policy") => Len(fio_jobs) = 4 * Len(table)
        /\ \A k \in 1..Len(table) : table[k] = AvailPolicies[k]
        /\ (pc \in {"tabulate", "done"}) =>
              /\ table = AvailPolicies
              /\ Len(fio_jobs) = 4 * Len(AvailPolicies)

\* C20 witness: started under "latency", the benchmark got through the
\* first policy's block, a measurement of the second block raised, and the
\* run ended with "latency" active again
C20_Witness ==
    /\ Benchmarking /\ pc = "raised"
    /\ env.policy = "latency" /\ policy = "latency"
    /\ table = <<"pid">>
    /\ Len(fio_jobs) = 6
    /\ fio_jobs[6].policy = "roundrobin"
    /\ fio_jobs[6].job.rw = "read" /\ fio_jobs[6].job.numjobs = cpu_count

====
